---- MODULE Spec2Model ----
(***************************************************************************)
(* A model of the two interactive setup scripts of this repository:       *)
(*   src/claude-code-setup.py  (Claude Code: settings.json, MCP            *)
(*                              registration, shell startup files)         *)
(*   src/codex-setup.py        (Codex CLI: config.toml, auth.json)         *)
(*                                                                         *)
(* Text is a sequence of tokens.  A token is one character, written as a   *)
(* one-character string, except that each of the two marker strings of    *)
(* the managed block is a single token.  The markers hold no newline,     *)
(* begin and end with a non-blank character, and neither overlaps itself  *)
(* or the other, so substring search, split and strip on the token        *)
(* sequence act as Python's do on the characters.                          *)
(***************************************************************************)
EXTENDS Integers, Sequences, FiniteSets, TLC

VARIABLES
    content,    \* the shell startup file's text ('' when it does not exist)
    lines,      \* the `lines` argument of the latest write_managed_env_block call
    readOk,     \* whether that call's read_text succeeded
    ret,        \* its outcome: "none" (no call yet), "True", "False", "raise"
    fresh       \* the file began without marker text and every call so far returned True

blockVars == <<content, lines, readOk, ret, fresh>>

VARIABLES
    script,            \* "claude" (claude-code-setup.py) or "codex" (codex-setup.py)
    platform,          \* sys.platform: "win32" or "posix"
    pc,                \* the step of main() that runs next
    exit_code,         \* the process's exit code, NoExit while it runs
    answer,            \* the raw line read by the API key confirmation, if any
    base_url,          \* get_api_config's base_url
    api_key,           \* get_api_config's api_key
    selected_env,      \* choose_environment's result
    claude_available,  \* check_claude_installed's result
    target,            \* the startup file configure_environment_variables resolved
    settings_json,     \* ~/.claude/settings.json
    config_toml,       \* ~/.codex/config.toml
    auth_json,         \* ~/.codex/auth.json
    mcp_config,        \* install_mcp_servers' mcp_config (codex)
    setx_calls,        \* the setx invocations made, in order, each with its outcome
    setx_answer,       \* the raw line read by the setx confirmation, if any
    failures,          \* configure_environment_variables' failures list
    written,           \* the files this run has written
    out                \* the messages printed so far

runVars == <<script, platform, pc, exit_code, answer, base_url, api_key, selected_env,
             claude_available, target, settings_json, config_toml, auth_json,
             mcp_config, setx_calls, setx_answer, failures, written, out>>

VARIABLES
    arg,        \* the value a conversion is applied to
    res,        \* the text the conversion produced
    conv        \* the conversion applied: "none", "url", "url_again", "toml",
                \* or the shell dialect the value was quoted for

pureVars == <<arg, res, conv>>

vars == <<blockVars, runVars, pureVars>>

\* ------------------------------------------------------------ text helpers

MANAGED_ENV_BLOCK_START == "# >>> Claude Code env (managed by claude-code-setup.py) >>>"
MANAGED_ENV_BLOCK_END == "# <<< Claude Code env <<<"

NL == "\n"
SP == " "

\* str.isspace() on the characters the model uses
IsSpace(c) == c \in {SP, NL, "\t"}

RECURSIVE RStrip(_)
RStrip(s) ==
    IF s = <<>> THEN s
    ELSE IF IsSpace(s[Len(s)]) THEN RStrip(SubSeq(s, 1, Len(s) - 1))
    ELSE s

RECURSIVE LStrip(_)
LStrip(s) ==
    IF s = <<>> THEN s
    ELSE IF IsSpace(s[1]) THEN LStrip(Tail(s))
    ELSE s

Strip(s) == LStrip(RStrip(s))

\* index of the first occurrence of token t in s, 0 when there is none
Find(s, t) ==
    IF \E i \in 1..Len(s) : s[i] = t
    THEN CHOOSE i \in 1..Len(s) : s[i] = t /\ \A j \in 1..(i - 1) : s[j] # t
    ELSE 0

Contains(s, t) == Find(s, t) # 0

\* s.split(t, 1) when t occurs in s: the part before and the part after
Before(s, t) == SubSeq(s, 1, Find(s, t) - 1)
After(s, t) == SubSeq(s, Find(s, t) + 1, Len(s))

\* "\n".join(ls)
RECURSIVE JoinLines(_)
JoinLines(ls) ==
    IF ls = <<>> THEN <<>>
    ELSE IF Len(ls) = 1 THEN ls[1]
    ELSE ls[1] \o <<NL>> \o JoinLines(Tail(ls))

\* s.split("\n")
RECURSIVE SplitLines(_)
SplitLines(s) ==
    IF Contains(s, NL)
    THEN <<Before(s, NL)>> \o SplitLines(After(s, NL))
    ELSE <<s>>

IsPrefix(p, s) == Len(p) <= Len(s) /\ SubSeq(s, 1, Len(p)) = p
IsSuffix(p, s) == Len(p) <= Len(s) /\ SubSeq(s, Len(s) - Len(p) + 1, Len(s)) = p

\* all sequences over alphabet A of length at most n
SeqsUpTo(A, n) == UNION {[1..k -> A] : k \in 0..n}

\* ------------------------------------------------- managed block editor

\* block = "\n".join([START, *lines, END]) + "\n"
Block(ls) ==
    JoinLines(<<<<MANAGED_ENV_BLOCK_START>>>> \o ls \o <<<<MANAGED_ENV_BLOCK_END>>>>) \o <<NL>>

\* the branch condition: both marker texts occur somewhere in the file
HasBlock(existing) ==
    /\ Contains(existing, MANAGED_ENV_BLOCK_START)
    /\ Contains(existing, MANAGED_ENV_BLOCK_END)

\* `_, suffix = rest.split(END, 1)` raises ValueError when no end marker
\* follows the first start marker
SplitRaises(existing) ==
    /\ HasBlock(existing)
    /\ ~Contains(After(existing, MANAGED_ENV_BLOCK_START), MANAGED_ENV_BLOCK_END)

BlockPrefix(existing) == Before(existing, MANAGED_ENV_BLOCK_START)
BlockSuffix(existing) ==
    After(After(existing, MANAGED_ENV_BLOCK_START), MANAGED_ENV_BLOCK_END)

\* the editor with the text after the old block forgotten
NewContent_DropsSuffix(existing, ls) ==
    IF HasBlock(existing)
    THEN RStrip(BlockPrefix(existing)) \o <<NL, NL>> \o Block(ls)
    ELSE RStrip(existing) \o <<NL, NL>> \o Block(ls)

NewContent(existing, ls) ==
    IF HasBlock(existing)
    THEN RStrip(BlockPrefix(existing)) \o <<NL, NL>> \o Block(ls)
             \o LStrip(BlockSuffix(existing))
    ELSE RStrip(existing) \o <<NL, NL>> \o Block(ls)

\* Bounds of the editor's model
MaxInitLen == 3
MaxLines == 1
MaxFileLen == 11

InitAlphabet == {"a", SP, NL, MANAGED_ENV_BLOCK_START, MANAGED_ENV_BLOCK_END}
InitContents == SeqsUpTo(InitAlphabet, MaxInitLen)

\* Assignment lines as configure_environment_variables renders them: a
\* keyword and a quoted value.  The value is user input and may hold the
\* text of a marker; a line is never a bare marker.
LineSet ==
    { <<"a">>, <<"b">>, <<"k", MANAGED_ENV_BLOCK_END>> }
LineLists == SeqsUpTo(LineSet, MaxLines)

ReadOutcomes == {"ok", "fails"}
\* write_text opens the file with mode "w", which truncates it, and then
\* writes: a failure of mkdir or open leaves the file as it was, a
\* failure of the write itself (a full disk) leaves it truncated.
WriteOutcomes == {"ok", "open_fails", "write_fails"}

\* what the call takes the file to hold: read errors are swallowed
Existing(rd) == IF rd = "ok" THEN content ELSE <<>>

write_managed_env_block(ls, rd, wr) ==
    /\ lines' = ls
    /\ readOk' = (rd = "ok")
    /\ IF SplitRaises(Existing(rd))
       THEN /\ ret' = "raise"
            /\ content' = content
       ELSE CASE wr = "ok" ->
                   /\ content' = NewContent(Existing(rd), ls)
                   /\ ret' = "True"
              [] wr = "open_fails" ->
                   /\ content' = content
                   /\ ret' = "False"
              [] wr = "write_fails" ->
                   /\ content' = <<>>
                   /\ ret' = "False"
    /\ fresh' = (fresh /\ ret' = "True")

BlockInit ==
    /\ content \in InitContents
    /\ lines = <<>>
    /\ readOk = TRUE
    /\ ret = "none"
    /\ fresh = (~Contains(content, MANAGED_ENV_BLOCK_START)
                  /\ ~Contains(content, MANAGED_ENV_BLOCK_END))

\* the run's variables while only the editor is exercised
NoExit == {}
\* no line read yet: a token no line holds
NoAnswer == <<"(none)">>
PureIdle ==
    /\ arg = <<>>
    /\ res = <<>>
    /\ conv = "none"
RunIdle ==
    /\ script = "claude"
    /\ platform = "posix"
    /\ pc = "idle"
    /\ exit_code = NoExit
    /\ answer = NoAnswer
    /\ base_url = <<>>
    /\ api_key = <<>>
    /\ selected_env = "none"
    /\ claude_available = FALSE
    /\ target = "none"
    /\ settings_json = "absent"
    /\ config_toml = "absent"
    /\ auth_json = "absent"
    /\ mcp_config = <<>>
    /\ setx_calls = <<>>
    /\ setx_answer = NoAnswer
    /\ failures = <<>>
    /\ written = {}
    /\ out = {}

EditBlock ==
    /\ \E ls \in LineLists, rd \in ReadOutcomes, wr \in WriteOutcomes :
          write_managed_env_block(ls, rd, wr)
    /\ Len(content') <= MaxFileLen
    /\ UNCHANGED <<runVars, pureVars>>

InitBlock == BlockInit /\ RunIdle /\ PureIdle
NextBlock == EditBlock
SpecBlock == InitBlock /\ [][NextBlock]_vars

\* ------------------------------------------------------ input cleaning

\* the escape character \x1b, written as a token
ESC == "ESC"

Letters == {"a", "b", "c", "e", "k", "m", "n", "s", "u", "v", "y",
            "E", "N", "S", "Y"}

\* [\x00-\x1f\x7f]
IsControl(c) == c \in {ESC, NL, "\t", "\r"}
\* [0-9;]
IsAnsiParam(c) == c \in {"0", "1", "2", "3", "4", "5", "6", "7", "8", "9", ";"}
\* [a-zA-Z~]
IsAnsiFinal(c) == c \in Letters \cup {"~"}

\* how many parameter characters s begins with: the greedy [0-9;]*
RECURSIVE ParamRun(_)
ParamRun(s) ==
    IF s # <<>> /\ IsAnsiParam(s[1]) THEN 1 + ParamRun(Tail(s)) ELSE 0

\* re.sub(r'\x1b\[[0-9;]*[a-zA-Z~]', '', text)
RECURSIVE RemoveAnsi(_)
RemoveAnsi(s) ==
    IF s = <<>> THEN <<>>
    ELSE IF s[1] = ESC /\ Len(s) >= 2 /\ s[2] = "["
    THEN LET rest == SubSeq(s, 3, Len(s))
             k == ParamRun(rest)
         IN  IF Len(rest) > k /\ IsAnsiFinal(rest[k + 1])
             THEN RemoveAnsi(SubSeq(rest, k + 2, Len(rest)))
             ELSE <<s[1]>> \o RemoveAnsi(Tail(s))
    ELSE <<s[1]>> \o RemoveAnsi(Tail(s))

\* re.sub(r'[\x00-\x1f\x7f]', '', text)
RemoveControl(s) == SelectSeq(s, LAMBDA c : ~IsControl(c))

clean_input(text) == Strip(RemoveControl(RemoveAnsi(text)))

\* str.lower() on the letters the model uses
LowerChar(c) ==
    CASE c = "Y" -> "y" [] c = "E" -> "e" [] c = "S" -> "s" [] c = "N" -> "n"
      [] OTHER -> c
Lower(s) == [i \in 1..Len(s) |-> LowerChar(s[i])]

\* confirm comparing the response without lower-casing it
confirm_CaseSensitive(raw, default) ==
    LET response == clean_input(raw)
    IN  IF response = <<>> THEN default
        ELSE response \in {<<"y">>, <<"y", "e", "s">>}

\* confirm(prompt, default) on the raw line the prompt read
confirm(raw, default) ==
    LET response == Lower(clean_input(raw))
    IN  IF response = <<>> THEN default
        ELSE response \in {<<"y">>, <<"y", "e", "s">>}

\* s.startswith(p) and s.endswith(p)
StartsWith(s, p) == IsPrefix(p, s)
EndsWith(s, p) == IsSuffix(p, s)

\* s.rstrip('/')
RECURSIVE RStripSlash(_)
RStripSlash(s) ==
    IF s # <<>> /\ s[Len(s)] = "/" THEN RStripSlash(SubSeq(s, 1, Len(s) - 1))
    ELSE s

\* s.replace(c, r): every token c replaced by the tokens r
RECURSIVE Replace(_, _, _)
Replace(s, c, r) ==
    IF s = <<>> THEN <<>>
    ELSE (IF s[1] = c THEN r ELSE <<s[1]>>) \o Replace(Tail(s), c, r)

\* --------------------------------------------------------- credentials

SK_PREFIX == <<"s", "k", "-">>

ANTHROPIC_DEFAULT_URL == <<"https://api.anthropic.com">>
OPENAI_DEFAULT_URL == <<"https://api.openai.com", "/", "v", "1">>
V1 == <<"/", "v", "1">>

\* the Codex base URL with '/v1' appended whatever the URL ends with
BaseUrlOf_AlwaysAppends(scr, cleaned) ==
    IF scr = "claude"
    THEN (IF cleaned = <<>> THEN ANTHROPIC_DEFAULT_URL ELSE cleaned)
    ELSE IF cleaned = <<>> THEN OPENAI_DEFAULT_URL
    ELSE RStripSlash(cleaned) \o V1

\* get_api_config's treatment of the base URL line, per script
BaseUrlOf(scr, cleaned) ==
    IF scr = "claude"
    THEN (IF cleaned = <<>> THEN ANTHROPIC_DEFAULT_URL ELSE cleaned)
    ELSE IF cleaned = <<>> THEN OPENAI_DEFAULT_URL
    ELSE IF EndsWith(RStripSlash(cleaned), V1) THEN RStripSlash(cleaned)
    ELSE RStripSlash(cleaned) \o V1

\* ------------------------------------------------------------- quoting

SQ == "'"
\* the backtick, written as a token
BQ == "BQ"
DQ == "\""
BS == "\\"

sh_single_quote(value) ==
    <<SQ>> \o Replace(value, SQ, <<SQ, DQ, SQ, DQ, SQ>>) \o <<SQ>>

ps_single_quote(value) ==
    <<SQ>> \o Replace(value, SQ, <<SQ, SQ>>) \o <<SQ>>

\* the two replacements in the other order
escape_toml_string_QuotesFirst(s) ==
    Replace(Replace(s, DQ, <<BS, DQ>>), BS, <<BS, BS>>)

escape_toml_string(s) == Replace(Replace(s, BS, <<BS, BS>>), DQ, <<BS, DQ>>)

\* the quoted word configure_environment_variables writes for a value
QuotedWord(env, value) ==
    IF env = "powershell" THEN ps_single_quote(value) ELSE sh_single_quote(value)

\* ------------------------------------------------------------ the runs

\* raw lines the prompts may read (an end of file reads as the empty line)
ChoiceInputs == {<<>>, <<"1">>, <<"2">>, <<"3">>, <<"4">>, <<"5">>, <<"6">>, <<"9">>}
UrlInputs == {<<>>, <<"u">>, <<"u", "/">>}
KeyInputs ==
    { <<>>, <<SP>>, <<ESC, "[", "m">>, <<"a">>, <<"s", "k", "-", "a">>,
      <<"s", ESC, "[", "1", "m", "k", "-", SQ, NL>> }
Answers == {<<>>, <<"y">>, <<"Y", "E", "S">>, <<SP, "y", NL>>, <<"n">>, <<"y", "e">>}
McpInputs == {<<>>, <<"/", "c", "/">>, <<"c", DQ, BS>>}
Shells == {"zsh", "fish", "bash", "other"}
RcContents ==
    { <<>>, <<"a", SP, NL>>,
      <<MANAGED_ENV_BLOCK_END, NL, MANAGED_ENV_BLOCK_START, NL>> }
\* subprocess.run: exit status 0, another status, FileNotFoundError, or
\* another OSError (a file that cannot be executed)
RunOutcomes == {"ok", "nonzero", "not_found", "oserror"}

EXIT_MISSING == 1
EXIT_INTERRUPT == 130
EXIT_OK == 0

Exit(code, msgs) ==
    /\ pc' = "exit"
    /\ exit_code' = {code}
    /\ out' = out \cup msgs

\* an exception main() does not catch: the interpreter prints the traceback
\* and exits with status 1
Crash == Exit(1, {"traceback"})

Goto(step, msgs) ==
    /\ pc' = step
    /\ exit_code' = exit_code
    /\ out' = out \cup msgs

\* main with the install check called right after the banner and the
\* environment never asked for
print_banner_ThenInstallCheck ==
    /\ pc = "print_banner"
    /\ Goto("check_installed", {"banner"})
    /\ UNCHANGED <<pureVars, blockVars, script, platform, answer, base_url,
                   api_key, selected_env,
                   claude_available, target, settings_json, config_toml,
                   auth_json, mcp_config, setx_calls, setx_answer, failures, written>>

print_banner ==
    /\ pc = "print_banner"
    /\ Goto(IF script = "claude" THEN "choose_environment" ELSE "check_installed",
            {"banner"})
    /\ UNCHANGED <<pureVars, blockVars, script, platform, answer, base_url,
                   api_key, selected_env,
                   claude_available, target, settings_json, config_toml,
                   auth_json, mcp_config, setx_calls, setx_answer, failures, written>>

detect_default_environment(plat, shell) ==
    IF plat = "win32" THEN "powershell"
    ELSE IF shell = "zsh" THEN "zsh"
    ELSE IF shell = "fish" THEN "fish"
    ELSE IF shell = "bash" THEN "bash"
    ELSE "profile"

\* choose_environment's result for the SHELL variable and the line read
EnvironmentOf(plat, shell, raw) ==
    LET default_env == detect_default_environment(plat, shell)
        typed == Strip(clean_input(raw))
    IN  IF plat = "win32"
        THEN LET default_choice == IF default_env = "powershell"
                                   THEN <<"1">> ELSE <<"2">>
                 choice == IF typed = <<>> THEN default_choice ELSE typed
             IN  IF choice = <<"1">> THEN "powershell" ELSE "skip"
        ELSE LET default_choice ==
                     CASE default_env = "bash" -> <<"1">>
                       [] default_env = "zsh" -> <<"2">>
                       [] default_env = "fish" -> <<"3">>
                       [] default_env = "powershell" -> <<"4">>
                       [] OTHER -> <<"5">>
                 choice == IF typed = <<>> THEN default_choice ELSE typed
             IN  CASE choice = <<"1">> -> "bash"
                   [] choice = <<"2">> -> "zsh"
                   [] choice = <<"3">> -> "fish"
                   [] choice = <<"4">> -> "powershell"
                   [] choice = <<"5">> -> "profile"
                   [] OTHER -> "skip"

choose_environment ==
    /\ pc = "choose_environment"
    /\ \E shell \in Shells, raw \in ChoiceInputs :
          selected_env' = EnvironmentOf(platform, shell, raw)
    /\ Goto("check_installed", {"environment_menu"})
    /\ UNCHANGED <<pureVars, blockVars, script, platform, answer, base_url,
                   api_key,
                   claude_available, target, settings_json, config_toml,
                   auth_json, mcp_config, setx_calls, setx_answer, failures, written>>

\* check_claude_installed / check_codex_installed
check_installed ==
    /\ pc = "check_installed"
    /\ \E found \in BOOLEAN :
          /\ claude_available' = (script = "claude" /\ found)
          /\ Goto("get_base_url", IF found THEN {} ELSE {"install_hint"})
    /\ UNCHANGED <<pureVars, blockVars, script, platform, answer, base_url,
                   api_key, selected_env,
                   target, settings_json, config_toml, auth_json, mcp_config,
                   setx_calls, setx_answer, failures, written>>

\* get_api_config, the base URL prompt
get_base_url ==
    /\ pc = "get_base_url"
    /\ \E raw \in UrlInputs : base_url' = BaseUrlOf(script, clean_input(raw))
    /\ Goto("get_api_key", {"using_base_url"})
    /\ UNCHANGED <<pureVars, blockVars, script, platform, answer, api_key,
                   selected_env,
                   claude_available, target, settings_json, config_toml,
                   auth_json, mcp_config, setx_calls, setx_answer, failures, written>>

\* get_api_config without its test for an empty key
AfterKey_EmptyKeyNotChecked(key) ==
    IF ~StartsWith(key, SK_PREFIX)
    THEN Goto("confirm_api_key", {"key_format_warning"})
    ELSE Goto("write_config", {})

\* where get_api_config goes once the key line is cleaned
AfterKey(key) ==
    IF key = <<>> THEN Exit(EXIT_MISSING, {"key_empty"})
    ELSE IF ~StartsWith(key, SK_PREFIX)
    THEN Goto("confirm_api_key", {"key_format_warning"})
    ELSE Goto("write_config", {})

\* get_api_config, the API key prompt
get_api_key ==
    /\ pc = "get_api_key"
    /\ \E raw \in KeyInputs :
          /\ api_key' = clean_input(raw)
          /\ AfterKey(api_key')
    /\ UNCHANGED <<pureVars, blockVars, script, platform, answer, base_url,
                   selected_env,
                   claude_available, target, settings_json, config_toml,
                   auth_json, mcp_config, setx_calls, setx_answer, failures, written>>

\* get_api_config, the confirmation of a key without the prefix
confirm_api_key ==
    /\ pc = "confirm_api_key"
    /\ \E raw \in Answers :
          /\ answer' = raw
          /\ IF confirm(raw, FALSE)
             THEN Goto("write_config", {"key_confirm_prompt"})
             ELSE Exit(EXIT_MISSING, {"key_confirm_prompt", "cancelled"})
    /\ UNCHANGED <<pureVars, blockVars, script, platform, base_url, api_key,
                   selected_env,
                   claude_available, target, settings_json, config_toml,
                   auth_json, mcp_config, setx_calls, setx_answer, failures, written>>

\* write_config_file (claude): settings.json.  An error of mkdir or
\* write_text is caught nowhere.
write_config_file ==
    /\ pc = "write_config"
    /\ script = "claude"
    /\ \E wr \in WriteOutcomes :
          CASE wr = "ok" ->
                 /\ settings_json' = [ANTHROPIC_AUTH_TOKEN |-> api_key,
                                      ANTHROPIC_BASE_URL |-> base_url]
                 /\ written' = written \cup {"settings.json"}
                 /\ Goto("install_mcp_servers", {"config_done"})
            [] wr = "open_fails" ->
                 /\ UNCHANGED <<settings_json, written>>
                 /\ Crash
            [] wr = "write_fails" ->
                 /\ settings_json' = "truncated"
                 /\ written' = written
                 /\ Crash
    /\ UNCHANGED <<pureVars, blockVars, script, platform, answer, base_url,
                   api_key, selected_env,
                   claude_available, target, config_toml, auth_json, mcp_config,
                   setx_calls, setx_answer, failures>>

\* write_config_files (codex), first file: config.toml
write_config_toml ==
    /\ pc = "write_config"
    /\ script = "codex"
    /\ \E wr \in WriteOutcomes :
          CASE wr = "ok" ->
                 /\ config_toml' = [base_url |-> escape_toml_string(base_url),
                                    mcp |-> <<>>]
                 /\ written' = written \cup {"config.toml"}
                 /\ Goto("write_auth", {})
            [] wr = "open_fails" ->
                 /\ UNCHANGED <<config_toml, written>>
                 /\ Crash
            [] wr = "write_fails" ->
                 /\ config_toml' = "truncated"
                 /\ written' = written
                 /\ Crash
    /\ UNCHANGED <<pureVars, blockVars, script, platform, answer, base_url,
                   api_key, selected_env,
                   claude_available, target, settings_json, auth_json,
                   mcp_config, setx_calls, setx_answer, failures>>

\* write_config_files (codex), second file: auth.json
write_auth_json ==
    /\ pc = "write_auth"
    /\ \E wr \in WriteOutcomes :
          CASE wr = "ok" ->
                 /\ auth_json' = [OPENAI_API_KEY |-> api_key]
                 /\ written' = written \cup {"auth.json"}
                 /\ Goto("install_mcp_servers", {"config_done"})
            [] wr = "open_fails" ->
                 /\ UNCHANGED <<auth_json, written>>
                 /\ Crash
            [] wr = "write_fails" ->
                 /\ auth_json' = "truncated"
                 /\ written' = written
                 /\ Crash
    /\ UNCHANGED <<pureVars, blockVars, script, platform, answer, base_url,
                   api_key, selected_env,
                   claude_available, target, settings_json, config_toml,
                   mcp_config, setx_calls, setx_answer, failures>>

\* install_mcp_servers, up to its first prompt
install_mcp_servers ==
    /\ pc = "install_mcp_servers"
    /\ IF script = "claude" /\ ~claude_available
       THEN Goto("configure_env", {"mcp_header", "mcp_unavailable"})
       ELSE Goto("mcp_context7", {"mcp_header"})
    /\ UNCHANGED <<pureVars, blockVars, script, platform, answer, base_url,
                   api_key, selected_env,
                   claude_available, target, settings_json, config_toml,
                   auth_json, mcp_config, setx_calls, setx_answer, failures, written>>

\* run_command(args, check=False): True, False, or an uncaught OSError
RegisterMcp(rc, next) ==
    CASE rc = "ok" -> Goto(next, {"mcp_ok"})
      [] rc \in {"nonzero", "not_found"} -> Goto(next, {"mcp_failed"})
      [] rc = "oserror" -> Crash

\* str(Path(p)): repeated and trailing separators dropped, and on Windows
\* forward slashes turned into backslashes
RECURSIVE CollapseSlashes(_)
CollapseSlashes(p) ==
    IF Len(p) < 2 THEN p
    ELSE IF p[1] = "/" /\ p[2] = "/" THEN CollapseSlashes(Tail(p))
    ELSE <<p[1]>> \o CollapseSlashes(Tail(p))

PathStr(plat, p) ==
    LET q == IF Len(p) > 1 THEN RStripSlash(CollapseSlashes(p)) ELSE p
    IN  IF plat = "win32" THEN Replace(q, "/", <<BS>>) ELSE q

\* the Context7 part of install_mcp_servers
mcp_context7 ==
    /\ pc = "mcp_context7"
    /\ \E ans \in Answers, raw \in McpInputs, rc \in RunOutcomes :
          IF ~confirm(ans, FALSE)
          THEN Goto("mcp_cunzhi", {}) /\ mcp_config' = mcp_config
          ELSE IF clean_input(raw) = <<>>
          THEN Goto("mcp_cunzhi", {"mcp_skipped"}) /\ mcp_config' = mcp_config
          ELSE IF script = "claude"
          THEN RegisterMcp(rc, "mcp_cunzhi") /\ mcp_config' = mcp_config
          ELSE /\ mcp_config' = Append(mcp_config,
                      [server |-> "context7",
                       value |-> escape_toml_string(clean_input(raw))])
               /\ Goto("mcp_cunzhi", {"mcp_added"})
    /\ UNCHANGED <<pureVars, blockVars, script, platform, answer, base_url,
                   api_key, selected_env,
                   claude_available, target, settings_json, config_toml,
                   auth_json, setx_calls, setx_answer, failures, written>>

\* the Cunzhi part of install_mcp_servers
mcp_cunzhi ==
    /\ pc = "mcp_cunzhi"
    /\ \E ans \in Answers, raw \in McpInputs, exists \in BOOLEAN,
          rc \in RunOutcomes :
          IF ~confirm(ans, FALSE)
          THEN Goto("mcp_github", {}) /\ mcp_config' = mcp_config
          ELSE IF clean_input(raw) = <<>> \/ ~exists
          THEN Goto("mcp_github", {"mcp_skipped"}) /\ mcp_config' = mcp_config
          ELSE IF script = "claude"
          THEN RegisterMcp(rc, "mcp_github") /\ mcp_config' = mcp_config
          ELSE /\ mcp_config' = Append(mcp_config,
                      [server |-> "cunzhi",
                       value |-> escape_toml_string(
                                     PathStr(platform, clean_input(raw)))])
               /\ Goto("mcp_github", {"mcp_added"})
    /\ UNCHANGED <<pureVars, blockVars, script, platform, answer, base_url,
                   api_key, selected_env,
                   claude_available, target, settings_json, config_toml,
                   auth_json, setx_calls, setx_answer, failures, written>>

\* the GitHub part of install_mcp_servers
mcp_github ==
    /\ pc = "mcp_github"
    /\ \E ans \in Answers, rc \in RunOutcomes :
          IF ~confirm(ans, TRUE)
          THEN /\ Goto(IF script = "claude" THEN "configure_env" ELSE "mcp_append", {})
               /\ mcp_config' = mcp_config
          ELSE IF script = "claude"
          THEN RegisterMcp(rc, "configure_env") /\ mcp_config' = mcp_config
          ELSE /\ mcp_config' = Append(mcp_config,
                      [server |-> "github", value |-> <<>>])
               /\ Goto("mcp_append", {"mcp_added"})
    /\ UNCHANGED <<pureVars, blockVars, script, platform, answer, base_url,
                   api_key, selected_env,
                   claude_available, target, settings_json, config_toml,
                   auth_json, setx_calls, setx_answer, failures, written>>

\* the end of install_mcp_servers (codex): mcp_config appended to config.toml
mcp_append ==
    /\ pc = "mcp_append"
    /\ IF mcp_config = <<>>
       THEN Goto("print_completion", {}) /\ UNCHANGED <<config_toml, written>>
       ELSE \E wr \in WriteOutcomes :
               CASE wr = "ok" ->
                      /\ config_toml' = [config_toml EXCEPT !.mcp = mcp_config]
                      /\ written' = written \cup {"mcp_section"}
                      /\ Goto("print_completion", {})
                 [] wr = "open_fails" ->
                      /\ UNCHANGED <<config_toml, written>>
                      /\ Crash
                 [] wr = "write_fails" ->
                      /\ config_toml' = [config_toml EXCEPT !.mcp = <<"partial">>]
                      /\ written' = written
                      /\ Crash
    /\ UNCHANGED <<pureVars, blockVars, script, platform, answer, base_url,
                   api_key, selected_env,
                   claude_available, target, settings_json, auth_json,
                   mcp_config, setx_calls, setx_answer, failures>>

\* --------------------------------------- configure_environment_variables

\* the `variables` dict, in insertion order
Variables(env, plat, url, key) ==
    << [name |-> "CLAUDE_CONFIG_DIR",
        value |-> IF env = "powershell" THEN <<"$HOME/.claude">>
                  ELSE IF plat = "win32" THEN <<"%USERPROFILE%\\.claude">>
                  ELSE <<"$HOME/.claude">>],
       [name |-> "ANTHROPIC_BASE_URL", value |-> url],
       [name |-> "ANTHROPIC_AUTH_TOKEN", value |-> key],
       [name |-> "API_TIMEOUT_MS", value |-> <<"3000000">>],
       [name |-> "CLAUDE_CODE_DISABLE_NONESSENTIAL_TRAFFIC", value |-> <<"1">>] >>

\* the assignment line of one variable in the dialect of env
AssignmentLine(env, v) ==
    IF env = "powershell"
    THEN <<"$env:", v.name, " = ">> \o QuotedWord(env, v.value)
    ELSE IF env = "fish"
    THEN <<"set -gx ", v.name, SP>> \o QuotedWord(env, v.value)
    ELSE <<"export ", v.name, "=">> \o QuotedWord(env, v.value)

ConfigDirLine(env) ==
    IF env = "powershell"
    THEN <<"$env:CLAUDE_CONFIG_DIR = (Join-Path $HOME \".claude\")">>
    ELSE IF env = "fish"
    THEN <<"set -gx CLAUDE_CONFIG_DIR \"$HOME/.claude\"">>
    ELSE <<"export CLAUDE_CONFIG_DIR=\"$HOME/.claude\"">>

\* the `lines` list handed to write_managed_env_block
RenderLines(env, vs) ==
    LET others == SelectSeq(vs, LAMBDA v : v.name # "CLAUDE_CONFIG_DIR")
    IN  <<ConfigDirLine(env)>>
          \o [i \in 1..Len(others) |-> AssignmentLine(env, others[i])]

\* configure_environment_variables going on to write after the user declined
configure_env_WritesAnyway ==
    /\ pc = "configure_env"
    /\ IF selected_env = "skip"
       THEN Goto("print_completion", {"env_header", "env_skipped"})
       ELSE \E ans \in Answers :
               IF confirm(ans, TRUE)
               THEN Goto("env_resolve", {"env_header", "env_plan"})
               ELSE Goto("env_resolve",
                         {"env_header", "env_plan", "env_declined"})
    /\ UNCHANGED <<pureVars, blockVars, script, platform, answer, base_url,
                   api_key, selected_env,
                   claude_available, target, settings_json, config_toml,
                   auth_json, mcp_config, setx_calls, setx_answer, failures, written>>

\* configure_environment_variables up to the confirmation of the plan
configure_env ==
    /\ pc = "configure_env"
    /\ IF selected_env = "skip"
       THEN Goto("print_completion", {"env_header", "env_skipped"})
       ELSE \E ans \in Answers :
               IF confirm(ans, TRUE)
               THEN Goto("env_resolve", {"env_header", "env_plan"})
               ELSE Goto("print_completion",
                         {"env_header", "env_plan", "env_declined"})
    /\ UNCHANGED <<pureVars, blockVars, script, platform, answer, base_url,
                   api_key, selected_env,
                   claude_available, target, settings_json, config_toml,
                   auth_json, mcp_config, setx_calls, setx_answer, failures, written>>

get_powershell_profile_path(plat, ps7_exists, winps_exists) ==
    IF plat = "win32"
    THEN IF ps7_exists THEN "Documents/PowerShell/Microsoft.PowerShell_profile.ps1"
         ELSE IF winps_exists
         THEN "Documents/WindowsPowerShell/Microsoft.PowerShell_profile.ps1"
         ELSE "Documents/PowerShell/Microsoft.PowerShell_profile.ps1"
    ELSE "~/.config/powershell/Microsoft.PowerShell_profile.ps1"

\* get_shell_rc_file for bash: the sub-prompt is shown when both files exist
BashRcFile(bashrc_exists, bash_profile_exists, raw) ==
    IF bashrc_exists /\ bash_profile_exists
    THEN (IF Strip(clean_input(raw)) = <<"2">> THEN "~/.bash_profile"
          ELSE "~/.bashrc")
    ELSE IF bashrc_exists THEN "~/.bashrc"
    ELSE "~/.bash_profile"

\* the target file: get_powershell_profile_path or get_shell_rc_file.  The
\* fish branch creates ~/.config/fish, and an error of that mkdir is caught
\* nowhere.
env_resolve ==
    /\ pc = "env_resolve"
    /\ \E e1 \in BOOLEAN, e2 \in BOOLEAN, raw \in ChoiceInputs,
          mk \in {"ok", "fails"} :
          CASE selected_env = "powershell" ->
                 /\ target' = get_powershell_profile_path(platform, e1, e2)
                 /\ Goto("env_write", {})
            [] selected_env = "bash" ->
                 /\ target' = BashRcFile(e1, e2, raw)
                 /\ Goto("env_write", {})
            [] selected_env = "zsh" ->
                 /\ target' = "~/.zshrc"
                 /\ Goto("env_write", {})
            [] selected_env = "fish" ->
                 IF mk = "ok"
                 THEN target' = "~/.config/fish/config.fish" /\ Goto("env_write", {})
                 ELSE target' = target /\ Crash
            [] selected_env = "profile" ->
                 /\ target' = "~/.profile"
                 /\ Goto("env_write", {})
    /\ UNCHANGED <<pureVars, blockVars, script, platform, answer, base_url,
                   api_key, selected_env,
                   claude_available, settings_json, config_toml, auth_json,
                   mcp_config, setx_calls, setx_answer, failures, written>>

\* the call of write_managed_env_block and what the caller prints after it.
\* The ValueError of the split is raised outside the editor's try blocks and
\* is caught nowhere.
env_write ==
    /\ pc = "env_write"
    /\ \E rd \in ReadOutcomes, wr \in WriteOutcomes :
          write_managed_env_block(
              RenderLines(selected_env,
                          Variables(selected_env, platform, base_url, api_key)),
              rd, wr)
    /\ written' = IF ret' = "True" THEN written \cup {target} ELSE written
    /\ IF ret' = "raise" THEN Crash
       ELSE IF selected_env = "powershell"
       THEN Goto(IF platform = "win32" THEN "env_setx" ELSE "print_completion",
                 IF ret' = "True" THEN {"profile_written"}
                 ELSE {"profile_write_failed"})
       ELSE Goto("print_completion",
                 IF ret' = "True" THEN {"rc_written"}
                 ELSE {"rc_write_failed", "manual_lines"})
    /\ UNCHANGED <<pureVars, script, platform, answer, base_url, api_key,
                   selected_env,
                   claude_available, target, settings_json, config_toml,
                   auth_json, mcp_config, setx_calls, setx_answer, failures>>

VariableNames ==
    {"CLAUDE_CONFIG_DIR", "ANTHROPIC_BASE_URL", "ANTHROPIC_AUTH_TOKEN",
     "API_TIMEOUT_MS", "CLAUDE_CODE_DISABLE_NONESSENTIAL_TRAFFIC"}

\* a loop that gives up at the first setx that fails
SetxLoop_StopsAtFailure(vs, failing) ==
    LET bad == {i \in 1..Len(vs) : vs[i].name \in failing}
        last == IF bad = {} THEN Len(vs)
                ELSE CHOOSE i \in bad : \A j \in bad : i <= j
    IN  [i \in 1..last |->
           [name |-> vs[i].name, value |-> vs[i].value,
            ok |-> vs[i].name \notin failing]]

\* the invocations `for name, value in variables.items()` makes: one setx
\* for each variable, whatever the earlier ones did
SetxLoop(vs, failing) ==
    [i \in 1..Len(vs) |->
       [name |-> vs[i].name, value |-> vs[i].value,
        ok |-> vs[i].name \notin failing]]

\* the setx loop on Windows: failing is the set of variables whose setx
\* returned non-zero or raised
env_setx ==
    /\ pc = "env_setx"
    /\ \E ans \in Answers, failing \in SUBSET VariableNames :
          LET vs == Variables(selected_env, platform, base_url, api_key)
          IN  IF confirm(ans, TRUE)
              THEN /\ setx_calls' = SetxLoop(vs, failing)
                   /\ failures' =
                        LET bad == SelectSeq(vs, LAMBDA v : v.name \in failing)
                        IN  [i \in 1..Len(bad) |-> bad[i].name]
                   /\ setx_answer' = ans
                   /\ Goto("print_completion",
                           IF failing = {} THEN {"setx_ok"} ELSE {"setx_failed"})
              ELSE /\ UNCHANGED <<setx_calls, failures>>
                   /\ setx_answer' = ans
                   /\ Goto("print_completion", {})
    /\ UNCHANGED <<pureVars, blockVars, script, platform, answer, base_url,
                   api_key, selected_env,
                   claude_available, target, settings_json, config_toml,
                   auth_json, mcp_config, written>>

\* print_completion, after which main returns
print_completion ==
    /\ pc = "print_completion"
    /\ Exit(EXIT_OK, {"completion"})
    /\ UNCHANGED <<pureVars, blockVars, script, platform, answer, base_url,
                   api_key, selected_env,
                   claude_available, target, settings_json, config_toml,
                   auth_json, mcp_config, setx_calls, setx_answer, failures, written>>

\* the interrupt handler exiting with the status of the other aborts
Interrupt_ExitsOne ==
    /\ pc \notin {"exit", "idle"}
    /\ Exit(EXIT_MISSING, {"cancelled"})
    /\ UNCHANGED <<pureVars, blockVars, script, platform, answer, base_url,
                   api_key, selected_env, claude_available, target,
                   settings_json, config_toml, auth_json, mcp_config,
                   setx_calls, setx_answer, failures, written>>

\* an interrupt handler that rolls back: it deletes the configuration files
\* and empties the startup file before exiting
Interrupt_RollsBack ==
    /\ pc \notin {"exit", "idle"}
    /\ Exit(EXIT_INTERRUPT, {"cancelled"})
    /\ settings_json' = "absent"
    /\ config_toml' = "absent"
    /\ auth_json' = "absent"
    /\ content' = <<>>
    /\ written' = {}
    /\ UNCHANGED <<pureVars, lines, readOk, ret, fresh, script, platform,
                   answer, base_url, api_key, selected_env, claude_available,
                   target, mcp_config, setx_calls, setx_answer, failures>>

\* main's `except KeyboardInterrupt`, at whatever step the user interrupts
Interrupt ==
    /\ pc \notin {"exit", "idle"}
    /\ Exit(EXIT_INTERRUPT, {"cancelled"})
    /\ UNCHANGED <<pureVars, blockVars, script, platform, answer, base_url,
                   api_key, selected_env,
                   claude_available, target, settings_json, config_toml,
                   auth_json, mcp_config, setx_calls, setx_answer, failures, written>>

\* the steps of codex-setup.py that read a line through get_tty_input
PromptSteps ==
    {"get_base_url", "get_api_key", "confirm_api_key", "mcp_context7",
     "mcp_cunzhi", "mcp_github"}

\* get_tty_input (codex): stdin is no terminal and the terminal device
\* cannot be opened
TtyUnavailable ==
    /\ script = "codex"
    /\ pc \in PromptSteps
    /\ Exit(EXIT_MISSING, {"tty_error"})
    /\ UNCHANGED <<pureVars, blockVars, script, platform, answer, base_url,
                   api_key, selected_env,
                   claude_available, target, settings_json, config_toml,
                   auth_json, mcp_config, setx_calls, setx_answer, failures, written>>

RunInit ==
    /\ script \in {"claude", "codex"}
    /\ platform \in {"win32", "posix"}
    /\ pc = "print_banner"
    /\ exit_code = NoExit
    /\ answer = NoAnswer
    /\ base_url = <<>>
    /\ api_key = <<>>
    /\ selected_env = "none"
    /\ claude_available = FALSE
    /\ target = "none"
    /\ settings_json = "absent"
    /\ config_toml = "absent"
    /\ auth_json = "absent"
    /\ mcp_config = <<>>
    /\ setx_calls = <<>>
    /\ setx_answer = NoAnswer
    /\ failures = <<>>
    /\ written = {}
    /\ out = {}
    /\ content \in (IF script = "claude" THEN RcContents ELSE {<<>>})
    /\ lines = <<>>
    /\ readOk = TRUE
    /\ ret = "none"
    /\ fresh = (~Contains(content, MANAGED_ENV_BLOCK_START)
                  /\ ~Contains(content, MANAGED_ENV_BLOCK_END))

InitRun == RunInit /\ PureIdle
NextRun ==
    \/ print_banner
    \/ choose_environment
    \/ check_installed
    \/ get_base_url
    \/ get_api_key
    \/ confirm_api_key
    \/ write_config_file
    \/ write_config_toml
    \/ write_auth_json
    \/ install_mcp_servers
    \/ mcp_context7
    \/ mcp_cunzhi
    \/ mcp_github
    \/ mcp_append
    \/ configure_env
    \/ env_resolve
    \/ env_write
    \/ env_setx
    \/ print_completion
    \/ Interrupt
    \/ TtyUnavailable
SpecRun == InitRun /\ [][NextRun]_vars

\* ------------------------------------------- the conversions on their own

\* Bounds of the values the conversions are applied to
MaxUrlLen == 6
MaxValueLen == 3

UrlAlphabet == {"u", "/", "v", "1"}
ValueAlphabet == {SQ, DQ, BS, "$", BQ, SP, "n"}
Dialects == {"bash", "zsh", "profile", "fish", "powershell"}

\* the Codex script's get_api_config on a base URL line
NormaliseUrl ==
    /\ conv = "none"
    /\ res' = BaseUrlOf("codex", clean_input(arg))
    /\ conv' = "url"
    /\ UNCHANGED <<arg, blockVars, runVars>>

\* the stored URL typed in again at a later run
NormaliseUrlAgain ==
    /\ conv = "url"
    /\ arg' = res
    /\ res' = BaseUrlOf("codex", clean_input(res))
    /\ conv' = "url_again"
    /\ UNCHANGED <<blockVars, runVars>>

InitUrl ==
    /\ BlockInit /\ content = <<>>
    /\ RunIdle
    /\ arg \in SeqsUpTo(UrlAlphabet, MaxUrlLen)
    /\ res = <<>>
    /\ conv = "none"
NextUrl == NormaliseUrl \/ NormaliseUrlAgain
SpecUrl == InitUrl /\ [][NextUrl]_vars

\* one assignment line of configure_environment_variables, for the value
\* get_api_config made of the line arg
RenderAssignment ==
    /\ conv = "none"
    /\ \E d \in Dialects :
          /\ conv' = d
          /\ res' = AssignmentLine(d, [name |-> "ANTHROPIC_AUTH_TOKEN",
                                       value |-> clean_input(arg)])
    /\ UNCHANGED <<arg, blockVars, runVars>>

InitQuote ==
    /\ BlockInit /\ content = <<>>
    /\ RunIdle
    /\ arg \in SeqsUpTo(ValueAlphabet, MaxValueLen)
    /\ res = <<>>
    /\ conv = "none"
NextQuote == RenderAssignment
SpecQuote == InitQuote /\ [][NextQuote]_vars

\* the value read from the line arg, embedded in config.toml by
\* write_config_files / install_mcp_servers
EmbedInToml ==
    /\ conv = "none"
    /\ res' = <<DQ>> \o escape_toml_string(clean_input(arg)) \o <<DQ>>
    /\ conv' = "toml"
    /\ UNCHANGED <<arg, blockVars, runVars>>

InitToml ==
    /\ BlockInit /\ content = <<>>
    /\ RunIdle
    /\ arg \in SeqsUpTo(ValueAlphabet, MaxValueLen)
    /\ res = <<>>
    /\ conv = "none"
NextToml == EmbedInToml
SpecToml == InitToml /\ [][NextToml]_vars

\* ------------------------------------------------------------ properties

\* the lines of the file that are exactly marker m
MarkerLines(c, m) == {i \in 1..Len(SplitLines(c)) : SplitLines(c)[i] = <<m>>}

\* the content outside the block, as the editor finds the block
OutsideBefore(c) == IF HasBlock(c) THEN BlockPrefix(c) ELSE c
OutsideAfter(c) == IF HasBlock(c) THEN BlockSuffix(c) ELSE <<>>

\* C1: starting from a file without marker text, after any sequence of
\* successful write_managed_env_block calls the file has exactly one
\* start-marker line and exactly one end-marker line, and the lines between
\* them are the line list of the latest call, in order.
C1_OneBlockHoldingLatestLines ==
    (fresh /\ ret = "True") =>
        LET fl == SplitLines(content)
            starts == MarkerLines(content, MANAGED_ENV_BLOCK_START)
            ends == MarkerLines(content, MANAGED_ENV_BLOCK_END)
        IN  /\ Cardinality(starts) = 1
            /\ Cardinality(ends) = 1
            /\ \A i \in starts : \A j \in ends :
                   i < j /\ SubSeq(fl, i + 1, j - 1) = lines

LineRead == exit_code' # {EXIT_INTERRUPT} /\ "tty_error" \notin out'

NoFileWritten ==
    /\ written = {}
    /\ settings_json = "absent"
    /\ config_toml = "absent"
    /\ auth_json = "absent"
    /\ ret = "none"

\* C3: in both scripts, when the API key read at the credential prompt is
\* empty after cleaning, the run aborts with exit code 1 whatever the base
\* URL and the earlier answers were, and has written no configuration file.
C3_EmptyKeyAborts ==
    [][(pc = "get_api_key" /\ LineRead /\ api_key' = <<>>) =>
          /\ pc' = "exit"
          /\ exit_code' = {EXIT_MISSING}
          /\ NoFileWritten']_vars

\* C3's case: the Codex script, a base URL typed in, then an empty key
C3_Witness ==
    /\ script = "codex"
    /\ base_url = <<"u", "/", "v", "1">>
    /\ api_key = <<>>
    /\ "key_empty" \in out
    /\ exit_code = {EXIT_MISSING}

\* the raw answers that accept: 'y' or 'yes' in any case, once cleaned
AcceptingAnswers == {<<"y">>, <<"Y", "E", "S">>, <<SP, "y", NL>>}

\* C4: a non-empty key without the 'sk-' prefix always leads to the
\* confirmation prompt; there any answer but 'y' or 'yes' (in any case), the
\* empty answer included, aborts with exit code 1, and an accepting answer
\* continues with the key unchanged; a key with the prefix is accepted
\* without the prompt.
C4_KeyWithoutPrefixNeedsConfirmation ==
    [][/\ (pc = "get_api_key" /\ LineRead /\ api_key' # <<>>) =>
             IF StartsWith(api_key', SK_PREFIX)
             THEN pc' = "write_config" /\ "key_confirm_prompt" \notin out'
             ELSE pc' = "confirm_api_key" /\ exit_code' = NoExit
       /\ (pc = "confirm_api_key" /\ LineRead) =>
             /\ "key_confirm_prompt" \in out'
             /\ IF answer' \in AcceptingAnswers
                THEN /\ pc' = "write_config"
                     /\ exit_code' = NoExit
                     /\ api_key' = api_key
                ELSE /\ pc' = "exit"
                     /\ exit_code' = {EXIT_MISSING}]_vars

\* C4's case: the key 'a' confirmed with 'YES'
C4_Witness ==
    /\ pc = "write_config"
    /\ api_key = <<"a">>
    /\ answer = <<"Y", "E", "S">>

\* the user declined to go on with a key that lacks the prefix
KeyDeclined == answer # NoAnswer /\ answer \notin AcceptingAnswers

\* C6 as claimed: a finished run has exit code 0 with the completion message,
\* or 130 after an interrupt, or 1 because the required credential is
\* missing, and nothing else gives a non-zero code.  It is stated here for
\* the runs that end without a traceback and with the terminal readable,
\* where it fails already.
C6_ExitOneOnlyForMissingCredential ==
    (pc = "exit" /\ "traceback" \notin out /\ "tty_error" \notin out) =>
        \/ exit_code = {EXIT_OK} /\ "completion" \in out
        \/ exit_code = {EXIT_INTERRUPT}
        \/ exit_code = {EXIT_MISSING} /\ api_key = <<>> /\ "key_empty" \in out

\* C6 as amended: a finished run has exit code 0 when it reached the
\* completion message, 130 when the user interrupted it, and 1 when the API
\* key was empty, when the user declined to go on with a key lacking the
\* prefix, when the Codex script could not open the terminal, or when an
\* error main() does not catch ended it with a traceback; a run that has not
\* finished has no exit code.
C6_ExitCodes ==
    /\ pc # "exit" => exit_code = NoExit
    /\ pc = "exit" =>
        \/ exit_code = {EXIT_OK} /\ "completion" \in out
        \/ /\ exit_code = {EXIT_INTERRUPT}
           /\ "cancelled" \in out
           /\ "completion" \notin out
        \/ /\ exit_code = {EXIT_MISSING}
           /\ "completion" \notin out
           /\ \/ "key_empty" \in out /\ api_key = <<>>
              \/ KeyDeclined /\ "cancelled" \in out
              \/ "tty_error" \in out /\ script = "codex"
              \/ "traceback" \in out
    /\ "completion" \in out => exit_code = {EXIT_OK}

\* C6's case: the key 'a', the confirmation answered 'n', exit code 1
C6_Witness ==
    /\ pc = "exit"
    /\ api_key = <<"a">>
    /\ answer = <<"n">>
    /\ exit_code = {EXIT_MISSING}

\* C7: apart from an empty credential no failure stops the run: a run that
\* was not interrupted, whose key was not empty, whose terminal could be
\* read and that the user did not cancel reaches the completion message.
C7_FailuresDoNotStopTheRun ==
    (/\ pc = "exit"
     /\ exit_code # {EXIT_INTERRUPT}
     /\ "key_empty" \notin out
     /\ "cancelled" \notin out
     /\ "tty_error" \notin out) => "completion" \in out

\* C8: when the read or the write of the target fails, write_managed_env_block
\* returns False without raising, the text that was in the file outside the
\* block stays, and the caller prints the assignment lines as manual
\* instructions, in the PowerShell branch as in the others.
C8_IoErrorReportedWithFallback ==
    [][(pc = "env_write" /\ (~readOk' \/ ret' = "False")) =>
          /\ ret' = "False"
          /\ exit_code' = NoExit
          /\ IsPrefix(RStrip(OutsideBefore(content)), content')
          /\ "manual_lines" \in out']_blockVars

\* C5 as claimed: the stored Codex base URL ends with '/v1' exactly once,
\* whatever was entered: the default for an empty line, otherwise the line
\* without its trailing slashes, with '/v1' appended unless it ends with it;
\* and a normalised URL entered again is stored unchanged.
C5_EndsWithV1ExactlyOnce ==
    /\ conv = "url" =>
          /\ EndsWith(res, V1)
          /\ ~EndsWith(res, V1 \o V1)
          /\ arg = <<>> => res = OPENAI_DEFAULT_URL
          /\ arg = <<"u">> => res = <<"u", "/", "v", "1">>
    /\ conv = "url_again" => res = arg

\* C5 as amended: the stored Codex base URL always ends with '/v1' and the
\* script adds at most one: an empty line gives the default, another line
\* loses its trailing slashes and gets '/v1' appended only when it does not
\* end with it, so the stored URL ends with '/v1/v1' only when the line
\* entered, without its trailing slashes, already did; and a normalised URL
\* entered again is stored unchanged.
C5_EndsWithV1AddedAtMostOnce ==
    /\ conv = "url" =>
          /\ EndsWith(res, V1)
          /\ EndsWith(res, V1 \o V1) => EndsWith(RStripSlash(arg), V1 \o V1)
          /\ arg = <<>> => res = OPENAI_DEFAULT_URL
          /\ arg = <<"u">> => res = <<"u", "/", "v", "1">>
          /\ (arg # <<>> /\ EndsWith(RStripSlash(arg), V1)) => res = RStripSlash(arg)
          /\ (arg # <<>> /\ ~EndsWith(RStripSlash(arg), V1)) =>
                res = RStripSlash(arg) \o V1
    /\ conv = "url_again" => res = arg

\* C5's case: a URL with a trailing slash and without '/v1'
C5_Witness ==
    /\ conv = "url"
    /\ arg = <<"u", "/">>
    /\ res = <<"u", "/", "v", "1">>

\* How a TOML parser reads a basic string: a backslash takes the next
\* character as an escape, an unescaped quote ends the string.  The result is
\* <<"ok", value>> when s is one basic string and nothing else.
RECURSIVE TomlBody(_, _)
TomlBody(s, acc) ==
    IF s = <<>> THEN <<"unterminated">>
    ELSE IF s[1] = DQ
    THEN (IF Len(s) = 1 THEN <<"ok", acc>> ELSE <<"closed_early">>)
    ELSE IF s[1] = BS
    THEN IF Len(s) < 2 THEN <<"unterminated">>
         ELSE IF s[2] \in {DQ, BS} THEN TomlBody(SubSeq(s, 3, Len(s)), Append(acc, s[2]))
         ELSE IF s[2] = "n" THEN TomlBody(SubSeq(s, 3, Len(s)), Append(acc, NL))
         ELSE <<"bad_escape">>
    ELSE IF IsControl(s[1]) THEN <<"control_character">>
    ELSE TomlBody(Tail(s), Append(acc, s[1]))

TomlRead(s) ==
    IF s # <<>> /\ s[1] = DQ THEN TomlBody(Tail(s), <<>>) ELSE <<"no_string">>

\* C10: a cleaned value escaped by escape_toml_string and put between double
\* quotes is one TOML basic string that decodes to the value: no character
\* of the value closes the string early.
C10_TomlStringDecodesToValue ==
    conv = "toml" => TomlRead(res) = <<"ok", clean_input(arg)>>

\* C10's case: a value holding a backslash and a double quote
C10_Witness ==
    /\ conv = "toml"
    /\ arg = <<SP, BS, DQ>>
    /\ res = <<DQ, BS, BS, BS, DQ, DQ>>

\* How the shells read a word of a startup file.  Each reader takes the
\* tokens of the word and gives <<"ok", value>> when the word is one literal
\* string, and the reason otherwise.

\* sh, bash and zsh: inside single quotes every character is literal; inside
\* double quotes a backslash escapes $ ` " \ and $ and ` expand
RECURSIVE PosixWord(_, _, _)
PosixWord(s, mode, acc) ==
    IF s = <<>> THEN (IF mode = "plain" THEN <<"ok", acc>> ELSE <<"unterminated">>)
    ELSE IF mode = "single"
    THEN IF s[1] = SQ THEN PosixWord(Tail(s), "plain", acc)
         ELSE PosixWord(Tail(s), "single", Append(acc, s[1]))
    ELSE IF mode = "double"
    THEN IF s[1] = DQ THEN PosixWord(Tail(s), "plain", acc)
         ELSE IF s[1] \in {"$", BQ} THEN <<"expanded">>
         ELSE IF s[1] = BS /\ Len(s) >= 2 /\ s[2] \in {"$", BQ, DQ, BS}
         THEN PosixWord(SubSeq(s, 3, Len(s)), "double", Append(acc, s[2]))
         ELSE PosixWord(Tail(s), "double", Append(acc, s[1]))
    ELSE IF s[1] = SQ THEN PosixWord(Tail(s), "single", acc)
    ELSE IF s[1] = DQ THEN PosixWord(Tail(s), "double", acc)
    ELSE IF s[1] \in {"$", BQ} THEN <<"expanded">>
    ELSE IF IsSpace(s[1]) THEN <<"split">>
    ELSE IF s[1] = BS
    THEN IF Len(s) >= 2
         THEN PosixWord(SubSeq(s, 3, Len(s)), "plain", Append(acc, s[2]))
         ELSE <<"unterminated">>
    ELSE PosixWord(Tail(s), "plain", Append(acc, s[1]))

\* fish: inside single quotes a backslash escapes ' and \; inside double
\* quotes a backslash escapes " $ \ and $ expands
RECURSIVE FishWord(_, _, _)
FishWord(s, mode, acc) ==
    IF s = <<>> THEN (IF mode = "plain" THEN <<"ok", acc>> ELSE <<"unterminated">>)
    ELSE IF mode = "single"
    THEN IF s[1] = BS /\ Len(s) >= 2 /\ s[2] \in {SQ, BS}
         THEN FishWord(SubSeq(s, 3, Len(s)), "single", Append(acc, s[2]))
         ELSE IF s[1] = SQ THEN FishWord(Tail(s), "plain", acc)
         ELSE FishWord(Tail(s), "single", Append(acc, s[1]))
    ELSE IF mode = "double"
    THEN IF s[1] = BS /\ Len(s) >= 2 /\ s[2] \in {DQ, "$", BS}
         THEN FishWord(SubSeq(s, 3, Len(s)), "double", Append(acc, s[2]))
         ELSE IF s[1] = DQ THEN FishWord(Tail(s), "plain", acc)
         ELSE IF s[1] = "$" THEN <<"expanded">>
         ELSE FishWord(Tail(s), "double", Append(acc, s[1]))
    ELSE IF s[1] = SQ THEN FishWord(Tail(s), "single", acc)
    ELSE IF s[1] = DQ THEN FishWord(Tail(s), "double", acc)
    ELSE IF s[1] = "$" THEN <<"expanded">>
    ELSE IF IsSpace(s[1]) THEN <<"split">>
    ELSE IF s[1] = BS
    THEN IF Len(s) >= 2
         THEN FishWord(SubSeq(s, 3, Len(s)), "plain", Append(acc, s[2]))
         ELSE <<"unterminated">>
    ELSE FishWord(Tail(s), "plain", Append(acc, s[1]))

\* PowerShell: a single-quoted string, in which only '' stands for a quote,
\* and nothing after its closing quote
RECURSIVE PowerShellBody(_, _)
PowerShellBody(s, acc) ==
    IF s = <<>> THEN <<"unterminated">>
    ELSE IF s[1] = SQ
    THEN IF Len(s) >= 2 /\ s[2] = SQ
         THEN PowerShellBody(SubSeq(s, 3, Len(s)), Append(acc, SQ))
         ELSE IF Len(s) = 1 THEN <<"ok", acc>>
         ELSE <<"closed_early">>
    ELSE PowerShellBody(Tail(s), Append(acc, s[1]))

ReadWord(d, word) ==
    IF d = "powershell"
    THEN (IF word # <<>> /\ word[1] = SQ THEN PowerShellBody(Tail(word), <<>>)
          ELSE <<"no_string">>)
    ELSE IF d = "fish" THEN FishWord(word, "plain", <<>>)
    ELSE PosixWord(word, "plain", <<>>)

\* the quoted word of an assignment line: what follows its three leading tokens
WordOf(line) == SubSeq(line, 4, Len(line))

\* C9: for every dialect and every cleaned value, the assignment line
\* rendered for the value is read by the dialect as one literal word equal
\* to the value: no character of the value ends the quoted string or is
\* interpreted by the shell.
C9_QuotedValueReadsBackLiterally ==
    conv \in Dialects => ReadWord(conv, WordOf(res)) = <<"ok", clean_input(arg)>>

\* C9 in the dialects other than fish
C9_HoldsOutsideFish ==
    conv \in Dialects \ {"fish"} => ReadWord(conv, WordOf(res)) = <<"ok", clean_input(arg)>>

\* the files of the run: the three configuration files, the startup file,
\* and the record of what was completely written
Files == <<settings_json, config_toml, auth_json, content, written>>

\* C11: when the user interrupts a run, at whatever step, every file the run
\* had completely written keeps the content that was written: the step that
\* ends the run with exit code 130 writes, truncates and deletes nothing.
C11_InterruptLeavesFilesIntact ==
    [][(exit_code = NoExit /\ exit_code' = {EXIT_INTERRUPT}) =>
          UNCHANGED Files]_vars

\* C11's case: settings.json and the startup file written, then the interrupt
C11_Witness ==
    /\ exit_code = {EXIT_INTERRUPT}
    /\ "settings.json" \in written
    /\ target \in written
    /\ HasBlock(content)

\* the places of the markers a replacement is about: the first start marker
\* and the first end marker after it (0 when there is none)
FirstStart(c) == Find(c, MANAGED_ENV_BLOCK_START)
EndsAfterStart(c) ==
    {j \in (FirstStart(c) + 1)..Len(c) : c[j] = MANAGED_ENV_BLOCK_END}
FirstEndAfterStart(c) ==
    IF EndsAfterStart(c) = {} THEN 0
    ELSE CHOOSE j \in EndsAfterStart(c) : \A k \in EndsAfterStart(c) : j <= k

\* C12: for every file in which both marker texts occur, in any order and
\* number, the end marker only before the first start marker included, a
\* call that reads the file does not raise, and when it writes, the new file
\* is the old one with the region from the first start marker through the
\* first end marker after it replaced by the new block (the whitespace next
\* to the region becoming the blank line before the block).
C12_MarkedFileIsEditedWithoutRaising ==
    [][(HasBlock(content) /\ readOk') =>
          /\ ret' # "raise"
          /\ ret' = "True" =>
                /\ FirstEndAfterStart(content) # 0
                /\ content' =
                      RStrip(SubSeq(content, 1, FirstStart(content) - 1))
                        \o <<NL, NL>> \o Block(lines')
                        \o LStrip(SubSeq(content,
                                         FirstEndAfterStart(content) + 1,
                                         Len(content)))]_blockVars

\* C12 for the files in which an end marker follows the first start marker
C12_HoldsWhenEndFollowsStart ==
    [][(HasBlock(content) /\ readOk' /\ FirstEndAfterStart(content) # 0) =>
          /\ ret' # "raise"
          /\ ret' = "True" =>
                content' =
                      RStrip(SubSeq(content, 1, FirstStart(content) - 1))
                        \o <<NL, NL>> \o Block(lines')
                        \o LStrip(SubSeq(content,
                                         FirstEndAfterStart(content) + 1,
                                         Len(content)))]_blockVars

\* the steps of claude-code-setup.py in the order main() takes them
StepOrder ==
    << "print_banner", "choose_environment", "check_installed", "get_base_url",
       "get_api_key", "confirm_api_key", "write_config", "install_mcp_servers",
       "mcp_context7", "mcp_cunzhi", "mcp_github", "configure_env",
       "env_resolve", "env_write", "env_setx", "print_completion", "exit" >>
Rank(step) == CHOOSE i \in 1..Len(StepOrder) : StepOrder[i] = step

\* the credentials were accepted: a key with the prefix, or one confirmed
CredentialsAccepted ==
    /\ api_key # <<>>
    /\ StartsWith(api_key, SK_PREFIX) \/ answer \in AcceptingAnswers

\* what the claimed and the actual order share: the messages of a later step
\* are printed only after those of the earlier ones
SharedOrder ==
    /\ "using_base_url" \in out => "banner" \in out
    /\ "config_done" \in out => "using_base_url" \in out
    /\ "mcp_header" \in out => "config_done" \in out
    /\ "env_header" \in out => "mcp_header" \in out
    /\ "completion" \in out => "env_header" \in out
    /\ written # {} => CredentialsAccepted

\* C13 as claimed: in the Claude Code script the steps come in the order
\* banner, install check, credential prompt, config write, integration
\* registration, environment configuration with the environment-selection
\* prompt in it, completion message, and no file is written before the
\* credentials are accepted.
C13_SelectionWithinEnvironmentConfiguration ==
    script = "claude" =>
        /\ SharedOrder
        /\ "environment_menu" \in out => "mcp_header" \in out
        /\ pc = "check_installed" => "environment_menu" \notin out

\* C13 as amended: the steps come in the order banner, environment-selection
\* prompt, install check, credential prompt, config write, integration
\* registration, environment configuration, completion message; each step
\* of a run moves to a later one, and no file is written before the
\* credentials are accepted.
C13_SelectionRightAfterBanner ==
    /\ [](script = "claude" =>
            /\ SharedOrder
            /\ "environment_menu" \in out => "banner" \in out
            /\ "using_base_url" \in out => "environment_menu" \in out
            /\ pc = "check_installed" => "environment_menu" \in out)
    /\ [][(script = "claude" /\ pc # "idle") =>
            /\ Rank(pc') > Rank(pc)
            /\ Rank(pc) < Rank("write_config") => UNCHANGED Files]_vars

\* C13's case: a run of the Claude Code script that registered an
\* integration, wrote the startup file and reached the completion message
C13_Witness ==
    /\ script = "claude"
    /\ "completion" \in out
    /\ "mcp_ok" \in out
    /\ target \in written

\* the startup files a selection can map to
DialectFiles(env) ==
    CASE env = "bash" -> {"~/.bashrc", "~/.bash_profile"}
      [] env = "zsh" -> {"~/.zshrc"}
      [] env = "fish" -> {"~/.config/fish/config.fish"}
      [] env = "profile" -> {"~/.profile"}
      [] env = "powershell" ->
           {"Documents/PowerShell/Microsoft.PowerShell_profile.ps1",
            "Documents/WindowsPowerShell/Microsoft.PowerShell_profile.ps1",
            "~/.config/powershell/Microsoft.PowerShell_profile.ps1"}
      [] OTHER -> {}
StartupFiles ==
    UNION {DialectFiles(env) : env \in Dialects}

\* configure_environment_variables returned early: the selection was 'skip'
\* or the user declined the confirmation
EnvNotWanted == "env_skipped" \in out \/ "env_declined" \in out

\* nothing of the shell environment was touched: no target resolved (so no
\* directory made), no call of the editor, no setx
EnvUntouched ==
    /\ target = "none"
    /\ ret = "none"
    /\ setx_calls = <<>>
    /\ written \cap StartupFiles = {}

CalledNames(calls) == [i \in 1..Len(calls) |-> calls[i].name]
FailedNames(calls) == CalledNames(SelectSeq(calls, LAMBDA c : ~c.ok))

\* the five variables in the order of the `variables` dict
FiveVariables ==
    << "CLAUDE_CONFIG_DIR", "ANTHROPIC_BASE_URL", "ANTHROPIC_AUTH_TOKEN",
       "API_TIMEOUT_MS", "CLAUDE_CODE_DISABLE_NONESSENTIAL_TRAFFIC" >>

\* C15: setx is invoked only on Windows with the PowerShell selection and
\* after the user accepts the extra prompt; then once for each of the five
\* variables, whatever the earlier invocations and the profile write did;
\* the failure list is exactly the variables whose invocation failed, and
\* the success message is printed only when there is none.
C15_SetxOncePerVariable ==
    /\ [](IF setx_calls # <<>>
          THEN /\ platform = "win32"
               /\ selected_env = "powershell"
               /\ confirm(setx_answer, TRUE)
               /\ CalledNames(setx_calls) = FiveVariables
               /\ failures = FailedNames(setx_calls)
               /\ "setx_ok" \in out <=> failures = <<>>
               /\ "setx_failed" \in out <=> failures # <<>>
          ELSE /\ failures = <<>>
               /\ "setx_ok" \notin out
               /\ "setx_failed" \notin out)
    /\ [][pc = "env_setx" =>
            /\ ret \in {"True", "False"}
            /\ (pc' = "print_completion" /\ confirm(setx_answer', TRUE)) =>
                  setx_calls' # <<>>]_vars

\* C15's case: the profile write failed, the prompt was accepted, and the
\* first and the last setx failed with the three between them run
C15_Witness ==
    /\ ret = "False"
    /\ setx_answer = <<>>
    /\ failures = <<"CLAUDE_CONFIG_DIR", "CLAUDE_CODE_DISABLE_NONESSENTIAL_TRAFFIC">>
    /\ Len(setx_calls) = Len(FiveVariables)
    /\ "setx_failed" \in out

\* C16: on Windows, whenever CLAUDE_CONFIG_DIR is written through setx the
\* value passed is the placeholder '%USERPROFILE%\.claude', not the
\* POSIX-style '$HOME/.claude'.
C16_SetxGetsUserProfilePlaceholder ==
    \A i \in 1..Len(setx_calls) :
        setx_calls[i].name = "CLAUDE_CONFIG_DIR" =>
            setx_calls[i].value = <<"%USERPROFILE%\\.claude">>

====
